---------------------------- MODULE Spec2Model ----------------------------
(***************************************************************************)
(* pydantic/_internal/_schema_generation_shared.py                         *)
(*                                                                         *)
(* JSON schema handlers: GenerateJsonSchemaHandler (bound to the engine    *)
(* and its definitions), UnpackedRefJsonSchemaHandler (unpacks "$ref"      *)
(* schemas, writes updates back in place) and the function wrapper         *)
(* wrap_json_schema_fn_for_model_or_custom_type_with_ref_unpacking.        *)
(*                                                                         *)
(* Python dicts are objects with identity: the heap is a sequence of dict  *)
(* contents and an object is its index, so that `is` / `is not` compare    *)
(* indices while clear()/update() change the content behind an index.      *)
(***************************************************************************)
EXTENDS Integers, Sequences, FiniteSets, TLC

\* ------------------------------------------------------------------ bounds
\* Dict objects that may be kept in one run, beside the definitions.
MaxObjs == 2
\* UnpackedRefJsonSchemaHandler instances the engine may construct itself,
\* beside the one of a running wrapped().
MaxHandlers == 1

\* ------------------------------------------------------------ schema values
\* Python None (the unset original_schema slot, an absent definition).
None == 0
\* The LookupError raised by resolve_ref_schema, as the outcome of a call.
RefNotFound == -1

\* JsonSchemaValue = Dict[str, Any]: a dict over these keys; a key that is
\* not in the dict maps to Absent.
Keys == {"$ref", "type", "minimum"}
Absent == "<absent>"
Dict(r, t, m) == [k \in Keys |-> IF k = "$ref" THEN r ELSE IF k = "type" THEN t ELSE m]
EmptyDict == Dict(Absent, Absent, Absent)
RefSchema(n) == Dict(n, Absent, Absent)
IntSchema == Dict(Absent, "integer", Absent)
IntMin0 == Dict(Absent, "integer", "0")
StrSchema == Dict(Absent, "string", Absent)

\* '$ref' in d
HasRef(d) == d["$ref"] # Absent

\* d.clear()
DictClear(hp, o) == [hp EXCEPT ![o] = EmptyDict]
\* d.update(s): every key of s is set in d, the others keep their value.
DictUpdate(hp, o, s) ==
  [hp EXCEPT ![o] = [k \in Keys |-> IF hp[s][k] # Absent THEN hp[s][k] ELSE hp[o][k]]]

\* The names a "$ref" may carry; "Missing" is never a definition.
RefNames == {"A", "B", "Missing"}
\* The core schemas handed to a handler.
Nodes == {"model", "int"}

\* GenerateJsonSchema.generate_inner: a definition reference for a model, an
\* inline schema otherwise.  Each call builds a new dict.
GenerateInner(node) == IF node = "model" THEN RefSchema("A") ELSE IntSchema
\* A handler_override: some other function of the core schema, here one that
\* refers to a definition the engine does not have, or to definition B.
Override(node) == IF node = "model" THEN RefSchema("Missing") ELSE RefSchema("B")

\* The engines of the model: validation mode without an override, with and
\* without definitions, and serialization mode with an override.
Engines ==
  { [mode |-> "validation", override |-> FALSE, present |-> {"A", "B"}],
    [mode |-> "validation", override |-> FALSE, present |-> {}],
    [mode |-> "serialization", override |-> TRUE, present |-> {"A", "B"}] }

\* Dicts the caller of a handler builds itself.
FreshContents == {IntMin0}
\* Contents an in-place edit of a dict may leave behind.
EditContents == {IntMin0}

VARIABLES
  heap,       \* heap[o]: the content of dict object o
  defs,       \* the engine's definitions: ref name -> dict object, or None
  gen_mode,   \* generate_json_schema.mode
  handlers,   \* the handler instances constructed so far
  stack,      \* the running invocations of wrapped(), innermost last
  held,       \* the dict objects the calling code has a reference to
  called,     \* the unpacking handlers whose __call__ was entered at least once
  last        \* the latest operation: its arguments and its outcome

vars == <<heap, defs, gen_mode, handlers, stack, held, called, last>>

Objs == 1..Len(heap)
Handlers == 1..Len(handlers)
\* last: the operation, its outcome (a dict or RefNotFound) and its number of
\* definition lookups; but for resolve_ref_schema, which changes nothing, its
\* handler, its core schema (of a call), its dict argument and that dict's
\* content when passed; for update_schema: the original_schema it found and
\* whether it wrote; for wrapped() also how often fn called its handler and
\* whether fn edited a dict in place, whether a call of its handler got
\* from the wrapped handler a "$ref" to a name without a definition, and the
\* handler wrapped() was given.
NoOp ==
  [op |-> "init", h |-> 0, node |-> "", arg |-> 0, argc |-> EmptyDict, ret |-> 0,
   lookups |-> 0, calls |-> 0, edited |-> FALSE, orig |-> 0, wrote |-> FALSE,
   failed |-> FALSE, over |-> 0]


\* ---------------------------------------------------------------- handlers
\* GenerateJsonSchemaHandler.__init__: the override if one is given, else
\* generate_inner; the engine's mode.
NewGenerateHandler(mode, override) ==
  [kind |-> "generate", inner |-> 0, override |-> override,
   mode |-> mode, original_schema |-> None]

\* original_schema kept in a place the instances share: a new instance over
\* a handler starts with what that handler has stored.
NewUnpackedHandlerSharedOriginal(hs, inner) ==
  [kind |-> "unpacked", inner |-> inner, override |-> FALSE,
   mode |-> hs[inner].mode, original_schema |-> hs[inner].original_schema]

\* GenerateJsonSchemaHandler.__init__ with, as handler_override, a function
\* made by wrap_json_schema_fn_for_model_or_custom_type_with_ref_unpacking and
\* bound to the handler `handler`: lambda core_schema: wrapped(core_schema, handler).
NewGenerateHandlerOver(mode, handler) ==
  [kind |-> "generate", inner |-> handler, override |-> TRUE,
   mode |-> mode, original_schema |-> None]

\* __init__ without `self.mode = handler.mode`: the mode stays a default.
NewUnpackedHandlerDefaultMode(hs, inner) ==
  [kind |-> "unpacked", inner |-> inner, override |-> FALSE,
   mode |-> "validation", original_schema |-> None]

\* UnpackedRefJsonSchemaHandler.__init__: the wrapped handler and its mode;
\* original_schema is the class attribute None until __call__ assigns it.
NewUnpackedHandler(hs, inner) ==
  [kind |-> "unpacked", inner |-> inner, override |-> FALSE,
   mode |-> hs[inner].mode, original_schema |-> None]

\* GenerateJsonSchema.get_schema_from_definitions: the dict or None.
GetSchemaFromDefinitions(ref) == defs[ref]

\* resolve_ref_schema without the early return for a schema that has no
\* '$ref': the lookup is made with a name no definition has.
GenerateResolveRefSchemaNoEarlyReturn(hp, o) ==
  LET ref == IF HasRef(hp[o]) THEN hp[o]["$ref"] ELSE "Missing"
      json_schema == GetSchemaFromDefinitions(ref)
  IN  IF json_schema = None
        THEN [ret |-> RefNotFound, lookups |-> 1]
        ELSE [ret |-> json_schema, lookups |-> 1]

\* resolve_ref_schema that falls back to the schema it was given instead of
\* raising LookupError.
GenerateResolveRefSchemaNoRaise(hp, o) ==
  IF ~HasRef(hp[o])
    THEN [ret |-> o, lookups |-> 0]
    ELSE LET json_schema == GetSchemaFromDefinitions(hp[o]["$ref"])
         IN  IF json_schema = None
               THEN [ret |-> o, lookups |-> 1]
               ELSE [ret |-> json_schema, lookups |-> 1]

\* GenerateJsonSchemaHandler.resolve_ref_schema.  lookups counts the calls
\* of get_schema_from_definitions.
GenerateResolveRefSchema(hp, o) ==
  IF ~HasRef(hp[o])
    THEN [ret |-> o, lookups |-> 0]
    ELSE LET json_schema == GetSchemaFromDefinitions(hp[o]["$ref"])
         IN  IF json_schema = None
               THEN [ret |-> RefNotFound, lookups |-> 1]
               ELSE [ret |-> json_schema, lookups |-> 1]

\* UnpackedRefJsonSchemaHandler.resolve_ref_schema delegates to the wrapped
\* handler, down to the GenerateJsonSchemaHandler of the chain.
RECURSIVE ResolveRefSchema(_, _, _, _)
ResolveRefSchema(hs, hp, h, o) ==
  IF hs[h].kind = "generate"
    THEN GenerateResolveRefSchema(hp, o)
    ELSE ResolveRefSchema(hs, hp, hs[h].inner, o)

RECURSIVE HandlerCall(_, _, _, _)
RECURSIVE WrappedCall(_, _, _, _)

\* __call__ that always uses generate_inner, also when an override was given.
GenerateCallIgnoresOverride(hs, hp, h, node) ==
  LET hp2 == Append(hp, GenerateInner(node))
  IN  [hs |-> hs, hp |-> hp2, ret |-> Len(hp2), lookups |-> 0]

\* GenerateJsonSchemaHandler.__call__: self.handler(core_schema), a new dict;
\* or, when the override is a function made by
\* wrap_json_schema_fn_for_model_or_custom_type_with_ref_unpacking and bound
\* to the handler hs[h].inner, the outcome of that function.
GenerateCall(hs, hp, h, node) ==
  IF hs[h].inner # 0
    THEN WrappedCall(hs, hp, hs[h].inner, node)
    ELSE LET c == IF hs[h].override THEN Override(node) ELSE GenerateInner(node)
             hp2 == Append(hp, c)
         IN  [hs |-> hs, hp |-> hp2, ret |-> Len(hp2), lookups |-> 0]

\* __call__ that keeps the result of the wrapped handler only the first time.
StoreOriginalKeepsFirst(hs, h, o) ==
  [hs EXCEPT ![h].original_schema = IF @ = None THEN o ELSE @]

\* __call__ that does not keep the result of the wrapped handler.
StoreOriginalDropped(hs, h, o) == hs

\* The assignment self.original_schema = <result of the wrapped handler>.
StoreOriginal(hs, h, o) == [hs EXCEPT ![h].original_schema = o]

\* UnpackedRefJsonSchemaHandler.__call__: the wrapped handler is called first;
\* when it raises nothing is assigned; else the result is stored and resolved
\* (the resolution may raise after the assignment).
HandlerCall(hs, hp, h, node) ==
  IF hs[h].kind = "generate"
    THEN GenerateCall(hs, hp, h, node)
    ELSE LET r == HandlerCall(hs, hp, hs[h].inner, node)
         IN  IF r.ret = RefNotFound
               THEN r
               ELSE LET hs2 == StoreOriginal(r.hs, h, r.ret)
                        rr == ResolveRefSchema(hs2, r.hp, h, r.ret)
                    IN  [hs |-> hs2, hp |-> r.hp, ret |-> rr.ret,
                         lookups |-> r.lookups + rr.lookups]

\* The test without its first half: only `schema is not original_schema`.
NewSchemaReturnedAnyOriginal(concrete, original, schema) == schema # concrete

\* The test `original_schema is not self.original_schema and
\* schema is not original_schema` (object identity).
NewSchemaReturned(concrete, original, schema) ==
  concrete # original /\ schema # concrete

\* The write the other way round: schema.clear(); schema.update(original_schema)
WriteBackReversed(hp, concrete, schema) ==
  DictUpdate(DictClear(hp, schema), schema, concrete)

\* original_schema.clear(); original_schema.update(schema)
WriteBack(hp, concrete, schema) ==
  DictUpdate(DictClear(hp, concrete), concrete, schema)

\* update_schema that catches the LookupError of resolve_ref_schema and
\* returns the schema it was given.
UpdateSchemaCatchesLookupError(hs, hp, h, schema) ==
  LET original == hs[h].original_schema
      rr == IF original = None THEN [ret |-> RefNotFound, lookups |-> 0]
            ELSE ResolveRefSchema(hs, hp, h, original)
  IN  IF rr.ret = RefNotFound
        THEN [hp |-> hp, ret |-> schema, lookups |-> rr.lookups, wrote |-> FALSE]
        ELSE IF NewSchemaReturned(rr.ret, original, schema)
          THEN [hp |-> WriteBack(hp, rr.ret, schema), ret |-> original,
                lookups |-> rr.lookups, wrote |-> TRUE]
          ELSE [hp |-> hp, ret |-> original, lookups |-> rr.lookups,
                wrote |-> FALSE]

\* update_schema that returns self.original_schema, not schema, when no
\* original_schema is set.
UpdateSchemaReturnsOriginal(hs, hp, h, schema) ==
  LET original == hs[h].original_schema
      rr == IF original = None THEN [ret |-> None, lookups |-> 0]
            ELSE ResolveRefSchema(hs, hp, h, original)
  IN  IF original = None \/ rr.ret = RefNotFound
        THEN [hp |-> hp, ret |-> rr.ret, lookups |-> rr.lookups, wrote |-> FALSE]
        ELSE IF NewSchemaReturned(rr.ret, original, schema)
          THEN [hp |-> WriteBack(hp, rr.ret, schema), ret |-> original,
                lookups |-> rr.lookups, wrote |-> TRUE]
          ELSE [hp |-> hp, ret |-> original, lookups |-> rr.lookups,
                wrote |-> FALSE]

\* UnpackedRefJsonSchemaHandler.update_schema.  wrote tells whether the branch
\* "a new schema was returned" was taken.
UpdateSchema(hs, hp, h, schema) ==
  IF hs[h].original_schema = None
    THEN [hp |-> hp, ret |-> schema, lookups |-> 0, wrote |-> FALSE]
    ELSE LET original == hs[h].original_schema
             rr == ResolveRefSchema(hs, hp, h, original)
         IN  IF rr.ret = RefNotFound
               THEN [hp |-> hp, ret |-> RefNotFound, lookups |-> rr.lookups,
                     wrote |-> FALSE]
               ELSE IF NewSchemaReturned(rr.ret, original, schema)
                 THEN [hp |-> WriteBack(hp, rr.ret, schema), ret |-> original,
                       lookups |-> rr.lookups, wrote |-> TRUE]
                 ELSE [hp |-> hp, ret |-> original, lookups |-> rr.lookups,
                       wrote |-> FALSE]

\* What the fn of a wrapped() used as an override returns: a new dict with
\* this content, after one call of its handler.
InnerFnContent == Dict(Absent, "string", "0")

\* wrapped() that returns fn's dict as it is, without update_schema.
WrappedCallWithoutUpdate(hs, hp, handler, node) ==
  LET r == HandlerCall(Append(hs, NewUnpackedHandler(hs, handler)), hp,
                       Len(hs) + 1, node)
  IN  IF r.ret = RefNotFound
        THEN [hs |-> SubSeq(r.hs, 1, Len(hs)), hp |-> r.hp, ret |-> RefNotFound,
              lookups |-> r.lookups]
        ELSE [hs |-> SubSeq(r.hs, 1, Len(hs)), hp |-> Append(r.hp, InnerFnContent),
              ret |-> Len(r.hp) + 1, lookups |-> r.lookups]

\* wrapped(core_schema, handler) as one call, for that fn: the new
\* UnpackedRefJsonSchemaHandler, fn's call of it (fn lets a LookupError pass),
\* update_schema of fn's new dict, and the result; the handler and fn's dict
\* are locals of the call.
WrappedCall(hs, hp, handler, node) ==
  LET wrapped_handler == Len(hs) + 1
      r == HandlerCall(Append(hs, NewUnpackedHandler(hs, handler)), hp,
                       wrapped_handler, node)
  IN  IF r.ret = RefNotFound
        THEN [hs |-> SubSeq(r.hs, 1, Len(hs)), hp |-> r.hp, ret |-> RefNotFound,
              lookups |-> r.lookups]
        ELSE LET json_schema == Len(r.hp) + 1
                 u == UpdateSchema(r.hs, Append(r.hp, InnerFnContent),
                                   wrapped_handler, json_schema)
             IN  [hs |-> SubSeq(r.hs, 1, Len(hs)),
                  hp |-> SubSeq(u.hp, 1, Len(r.hp)),
                  ret |-> u.ret, lookups |-> r.lookups + u.lookups]

\* The handlers whose __call__ runs when h is called: h and all it wraps.
RECURSIVE Chain(_, _)
Chain(hs, h) == IF hs[h].kind = "generate" THEN {h} ELSE {h} \cup Chain(hs, hs[h].inner)
\* The GenerateJsonSchemaHandler at the bottom of h's chain.
RECURSIVE Root(_, _)
Root(hs, h) == IF hs[h].kind = "generate" THEN h ELSE Root(hs, hs[h].inner)

\* ------------------------------------------------------------ state machine
\* The engine exists with its mode and its definitions (each a "$ref"-free
\* schema) and has constructed its handler.
Init ==
  /\ \E e \in Engines :
       /\ heap = IF e.present = {} THEN <<>> ELSE <<IntSchema, StrSchema>>
       /\ defs = [n \in RefNames |->
                   IF n \notin e.present THEN None ELSE IF n = "A" THEN 1 ELSE 2]
       /\ gen_mode = e.mode
       /\ handlers = <<NewGenerateHandler(e.mode, e.override)>>
  /\ stack = <<>>
  /\ held = {}
  /\ called = {}
  /\ last = NoOp

\* The handlers the running code can use: inside wrapped() the function fn
\* has the handler it was given, outside the engine has all of them.
Targets == IF stack = <<>> THEN Handlers ELSE {stack[Len(stack)].dec}

\* The dicts kept since the start.
Allocated == Len(heap) - Cardinality({n \in RefNames : defs[n] # None})

Returned(ret) == IF ret = RefNotFound THEN {} ELSE {ret}

\* A dict the caller builds for one call is dropped after the call unless the
\* call returned it: nothing else refers to it.
DropTemp(hp, v, ret) == IF v > Len(heap) /\ ret # v THEN SubSeq(hp, 1, Len(heap)) ELSE hp

\* UnpackedRefJsonSchemaHandler(handler)
ConstructUnpacked(inner) ==
  /\ stack = <<>>
  /\ Cardinality({h \in Handlers : handlers[h].kind = "unpacked"}) < MaxHandlers
  /\ inner \in Handlers
  /\ handlers' = Append(handlers, NewUnpackedHandler(handlers, inner))
  /\ last' = [NoOp EXCEPT !.op = "new_unpacked", !.h = Len(handlers) + 1]
  /\ UNCHANGED <<heap, defs, gen_mode, stack, held, called>>

\* The handler that h wraps returns, for this core schema, a "$ref" to a name
\* without a definition.
GotMissingRef(h, node) ==
  /\ handlers[h].kind = "unpacked"
  /\ LET r == HandlerCall(handlers, heap, handlers[h].inner, node)
     IN  /\ r.ret # RefNotFound
         /\ HasRef(r.hp[r.ret])
         /\ GetSchemaFromDefinitions(r.hp[r.ret]["$ref"]) = None

\* handler(core_schema)
Call(h, node) ==
  /\ h \in Targets
  /\ Allocated < MaxObjs
  /\ LET r == HandlerCall(handlers, heap, h, node)
     IN  /\ handlers' = r.hs
         /\ heap' = r.hp
         /\ held' = held \cup Returned(r.ret)
         /\ last' = [NoOp EXCEPT !.op = "call", !.h = h, !.node = node,
                                 !.ret = r.ret, !.lookups = r.lookups]
  /\ called' = called \cup {g \in Chain(handlers, h) : handlers[g].kind = "unpacked"}
  /\ stack' = IF stack = <<>> THEN stack
              ELSE [stack EXCEPT ![Len(stack)].calls = @ + 1,
                                 ![Len(stack)].failed = @ \/ GotMissingRef(h, node)]
  /\ UNCHANGED <<defs, gen_mode>>

\* handler.resolve_ref_schema(schema)
Resolve(h, o) ==
  /\ h \in Targets
  /\ o \in held
  /\ LET r == ResolveRefSchema(handlers, heap, h, o)
     IN  /\ held' = held \cup Returned(r.ret)
         /\ last' = [NoOp EXCEPT !.op = "resolve", !.ret = r.ret,
                                 !.lookups = r.lookups]
  /\ UNCHANGED <<heap, defs, gen_mode, handlers, stack, called>>

\* handler.update_schema(v) on the heap hp (the heap, or the heap with the
\* dict v the caller built for this call).
DoUpdate(h, hp, v) ==
  /\ stack = <<>>
  /\ h \in Handlers
  /\ handlers[h].kind = "unpacked"
  /\ LET u == UpdateSchema(handlers, hp, h, v)
     IN  /\ heap' = DropTemp(u.hp, v, u.ret)
         /\ Len(heap') - Len(heap) + Allocated <= MaxObjs
         /\ held' = held \cup Returned(u.ret)
         /\ last' = [NoOp EXCEPT !.op = "update", !.h = h, !.arg = v,
                                 !.argc = hp[v], !.ret = u.ret,
                                 !.lookups = u.lookups, !.wrote = u.wrote,
                                 !.orig = handlers[h].original_schema]
  /\ UNCHANGED <<defs, gen_mode, handlers, stack, called>>

\* update_schema with a dict the caller already has.
Update(h, o) == o \in held /\ DoUpdate(h, heap, o)
\* update_schema with a dict built for the call.
UpdateFresh(h, c) == DoUpdate(h, Append(heap, c), Len(heap) + 1)

\* The function fn edits in place a dict it has a reference to.
Edit(o, c) ==
  /\ stack # <<>>
  /\ o \in held
  /\ heap[o] # c
  /\ heap' = [heap EXCEPT ![o] = c]
  /\ stack' = [stack EXCEPT ![Len(stack)].edited = TRUE]
  /\ last' = [NoOp EXCEPT !.op = "edit", !.arg = o, !.argc = c]
  /\ UNCHANGED <<defs, gen_mode, handlers, held, called>>

\* wrapped(schema_or_field, handler) up to the call of fn: the new
\* UnpackedRefJsonSchemaHandler is what fn gets as its handler.
WrappedEnter(h) ==
  /\ stack = <<>>
  /\ h \in Handlers
  /\ handlers' = Append(handlers, NewUnpackedHandler(handlers, h))
  /\ stack' = Append(stack, [dec |-> Len(handlers) + 1, calls |-> 0, edited |-> FALSE,
                            failed |-> FALSE])
  /\ last' = [NoOp EXCEPT !.op = "enter", !.h = Len(handlers) + 1]
  /\ UNCHANGED <<heap, defs, gen_mode, held, called>>

\* The end of wrapped(): its handler is a local of the call and goes with it.
Leave ==
  /\ stack' = SubSeq(stack, 1, Len(stack) - 1)
  /\ handlers' = SubSeq(handlers, 1, Len(handlers) - 1)
  /\ called' = called \ {Len(handlers)}

\* fn returns the dict v: wrapped() passes it through update_schema and
\* returns the result (or leaves with the LookupError of update_schema).
DoReturn(hp, v) ==
  /\ stack # <<>>
  /\ LET f == stack[Len(stack)]
         u == UpdateSchema(handlers, hp, f.dec, v)
     IN  /\ heap' = DropTemp(u.hp, v, u.ret)
         /\ Len(heap') - Len(heap) + Allocated <= MaxObjs
         /\ held' = held \cup Returned(u.ret)
         /\ last' = [NoOp EXCEPT !.op = "wrapped", !.h = f.dec, !.arg = v,
                                 !.argc = hp[v], !.ret = u.ret,
                                 !.lookups = u.lookups, !.calls = f.calls,
                                 !.edited = f.edited, !.wrote = u.wrote,
                                 !.failed = f.failed,
                                 !.over = handlers[f.dec].inner,
                                 !.orig = handlers[f.dec].original_schema]
  /\ Leave
  /\ UNCHANGED <<defs, gen_mode>>

\* fn returns a dict it has a reference to.
WrappedReturn(o) == o \in held /\ DoReturn(heap, o)
\* fn returns a dict it built.
WrappedReturnFresh(c) == DoReturn(Append(heap, c), Len(heap) + 1)

\* fn does not catch the LookupError of its handler: it leaves wrapped().
WrappedRaise ==
  /\ stack # <<>>
  /\ last.ret = RefNotFound
  /\ last' = [NoOp EXCEPT !.op = "raised", !.h = stack[Len(stack)].dec,
                          !.ret = RefNotFound,
                          !.calls = stack[Len(stack)].calls,
                          !.edited = stack[Len(stack)].edited,
                          !.failed = stack[Len(stack)].failed,
                          !.over = handlers[stack[Len(stack)].dec].inner,
                          !.orig = handlers[stack[Len(stack)].dec].original_schema]
  /\ Leave
  /\ UNCHANGED <<heap, defs, gen_mode, held>>

Next ==
  \/ \E h \in Handlers : ConstructUnpacked(h)
  \/ \E h \in Handlers, node \in Nodes : Call(h, node)
  \/ \E h \in Handlers, o \in Objs : Resolve(h, o)
  \/ \E h \in Handlers, o \in Objs : Update(h, o)
  \/ \E h \in Handlers, c \in FreshContents : UpdateFresh(h, c)
  \/ \E o \in Objs, c \in EditContents : Edit(o, c)
  \/ \E h \in Handlers : WrappedEnter(h)
  \/ \E o \in Objs : WrappedReturn(o)
  \/ \E c \in FreshContents : WrappedReturnFresh(c)
  \/ WrappedRaise

Spec == Init /\ [][Next]_vars

\* Stacked functions: the engine has definitions A and B, a handler with the
\* override (handler 1), and a handler whose override runs a wrapped() over
\* handler 1.
InitStacked ==
  /\ heap = <<IntSchema, StrSchema>>
  /\ defs = [n \in RefNames |-> IF n = "A" THEN 1 ELSE IF n = "B" THEN 2 ELSE None]
  /\ gen_mode = "serialization"
  /\ handlers = <<NewGenerateHandler("serialization", TRUE),
                  NewGenerateHandlerOver("serialization", 1)>>
  /\ stack = <<>>
  /\ held = {}
  /\ called = {}
  /\ last = NoOp

\* The engine calls its handlers and runs wrapped() functions over them; it
\* builds no UnpackedRefJsonSchemaHandler of its own.
NextStacked ==
  \/ \E h \in Handlers, node \in Nodes : Call(h, node)
  \/ \E h \in Handlers, o \in Objs : Resolve(h, o)
  \/ \E o \in Objs, c \in EditContents : Edit(o, c)
  \/ \E h \in Handlers : WrappedEnter(h)
  \/ \E o \in Objs : WrappedReturn(o)
  \/ \E c \in FreshContents : WrappedReturnFresh(c)
  \/ WrappedRaise

SpecStacked == InitStacked /\ [][NextStacked]_vars

\* -------------------------------------------------------------- properties
Unpacked == {h \in Handlers : handlers[h].kind = "unpacked"}
Generate == {h \in Handlers : handlers[h].kind = "generate"}
\* The objects whose content is a "$ref" to the name n.
MarkersOf(n) == {o \in Objs : HasRef(heap[o]) /\ heap[o]["$ref"] = n}
\* The latest update_schema (called directly or by wrapped()) returned, and
\* found as original_schema a "$ref" to a definition the engine has.
UpdatedRefToDefinition ==
  /\ last.op \in {"update", "wrapped"}
  /\ last.orig # None
  /\ HasRef(heap[last.orig])
  /\ defs[heap[last.orig]["$ref"]] # None

\* C1: whenever an UnpackedRefJsonSchemaHandler's __call__ returns a value,
\* that value has no "$ref" key, whatever the wrapped handler returned and
\* whatever the definitions hold.
C1_TransformIsRefFree ==
  (last.op = "call" /\ last.h \in Unpacked /\ last.ret # RefNotFound)
    => ~HasRef(heap[last.ret])

\* C2: when fn called its handler once (and edited nothing), the wrapped
\* handler returned a "$ref" to a definition, and fn returned a dict other
\* than the one it was handed, wrapped() returns that "$ref" dict, unchanged,
\* and the definition it names has exactly the content fn returned.
C2_WrappedWritesDefinition ==
  (/\ UpdatedRefToDefinition
   /\ last.op = "wrapped"
   /\ last.calls = 1
   /\ ~last.edited
   /\ last.arg # defs[heap[last.orig]["$ref"]])
    => /\ last.ret = last.orig
       /\ heap[last.orig] \in {RefSchema(n) : n \in RefNames}
       /\ heap[defs[heap[last.orig]["$ref"]]] = last.argc

\* C3: after update_schema, on a handler whose __call__ gave a "$ref" to a
\* definition, was given a dict other than the dict that handler handed out,
\* every handler of the engine resolves every "$ref" to that definition to
\* the content update_schema was given.
C3_UpdateIsShared ==
  (/\ UpdatedRefToDefinition
   /\ last.arg # defs[heap[last.orig]["$ref"]])
    => \A h \in Handlers, o \in MarkersOf(heap[last.orig]["$ref"]) :
         LET r == ResolveRefSchema(handlers, heap, h, o)
         IN  r.ret # RefNotFound /\ heap[r.ret] = last.argc

\* C4: resolve_ref_schema applied to its own result gives that result again,
\* through every handler, for every dict and all definitions reachable.
C4_ResolveIdempotent ==
  \A h \in Handlers, o \in Objs :
    LET r == ResolveRefSchema(handlers, heap, h, o)
    IN  r.ret # RefNotFound =>
          ResolveRefSchema(handlers, heap, h, r.ret).ret = r.ret

\* C5: for a dict without "$ref", resolve_ref_schema returns that very dict,
\* makes no lookup in the definitions and does not raise, whatever the
\* definitions hold, through every handler.
C5_ResolveNonRefIsNoOp ==
  \A h \in Handlers, o \in Objs :
    ~HasRef(heap[o]) =>
      ResolveRefSchema(handlers, heap, h, o) = [ret |-> o, lookups |-> 0]

\* resolve_ref_schema has just returned a "$ref"-free dict without a lookup,
\* on an engine that has no definitions.
C5_Witness ==
  /\ last.op = "resolve"
  /\ last.ret # RefNotFound
  /\ ~HasRef(heap[last.ret])
  /\ last.lookups = 0
  /\ \A n \in RefNames : defs[n] = None

\* A "$ref" dict resolves to LookupError (RefNotFound) exactly when the engine has no
\* definition of its name, through every handler.
C6_RaisesIffMissing ==
  \A h \in Handlers, o \in Objs :
    HasRef(heap[o]) =>
      (ResolveRefSchema(handlers, heap, h, o).ret = RefNotFound
         <=> defs[heap[o]["$ref"]] = None)
\* A call of resolve_ref_schema changes no dict and no definition.
C6_ResolveStep ==
  last'.op = "resolve" => heap' = heap /\ defs' = defs

\* C6: resolve_ref_schema of a "$ref" whose name the engine has no definition
\* of raises LookupError (it returns no value) and leaves the definitions as
\* they are, on every handler; of a "$ref" whose name has a definition it
\* does not raise.
C6_MissingRefRaises == []C6_RaisesIffMissing /\ [][C6_ResolveStep]_vars

\* resolve_ref_schema has just raised LookupError.
C6_Witness ==
  /\ last.op = "resolve"
  /\ last.ret = RefNotFound
  /\ last.lookups = 1

\* C7: on an UnpackedRefJsonSchemaHandler whose __call__ was never entered,
\* original_schema is None and update_schema(v) returns v itself for every
\* dict v, without a lookup, without a write and without raising.
C7_UpdateBeforeCallIsNoOp ==
  \A h \in Unpacked \ called :
    /\ handlers[h].original_schema = None
    /\ \A o \in Objs :
         UpdateSchema(handlers, heap, h, o)
           = [hp |-> heap, ret |-> o, lookups |-> 0, wrote |-> FALSE]

\* update_schema has just returned its argument, a "$ref" to a name without a
\* definition, on a handler that was never called and is still unset.
C7_Witness ==
  /\ last.op = "update"
  /\ last.h \in Unpacked \ called
  /\ last.ret = last.arg
  /\ HasRef(last.argc)
  /\ defs[last.argc["$ref"]] = None
  /\ handlers[last.h].original_schema = None

\* C8: GenerateJsonSchemaHandler.__call__ returns the dict the override made
\* when one was given, else the dict generate_inner made: a new dict, a "$ref"
\* staying a "$ref", no lookup, every other dict and definition as before.
C8_GenerateCallReturnsHandlerResult ==
  \A h \in Generate, node \in Nodes :
    HandlerCall(handlers, heap, h, node)
      = [hs |-> handlers,
         hp |-> Append(heap, IF handlers[h].override THEN Override(node)
                                                     ELSE GenerateInner(node)),
         ret |-> Len(heap) + 1,
         lookups |-> 0]

\* A GenerateJsonSchemaHandler with an override has just returned the "$ref"
\* of the override, to a name without a definition.
C8_Witness ==
  /\ last.op = "call"
  /\ last.h \in Generate
  /\ handlers[last.h].override
  /\ last.ret # RefNotFound
  /\ heap[last.ret] = Override(last.node)
  /\ HasRef(heap[last.ret])
  /\ defs[heap[last.ret]["$ref"]] = None

\* C9: every handler of a chain has the mode of the engine its
\* GenerateJsonSchemaHandler was constructed with, in every state.
C9_ModeIsFixed ==
  \A h \in Handlers :
    /\ handlers[h].mode = gen_mode
    /\ handlers[h].mode = handlers[Root(handlers, h)].mode

\* A handler wrapping an UnpackedRefJsonSchemaHandler of a serialization
\* engine has just been called.
C9_Witness ==
  /\ last.op = "call"
  /\ last.h \in Unpacked
  /\ handlers[last.h].inner \in Unpacked
  /\ gen_mode = "serialization"
  /\ handlers[last.h].mode = "serialization"

C10_UnsetUntilCalled ==
  \A h \in Unpacked \ called : handlers[h].original_schema = None
\* One step, for an instance h that exists before and after it: a set
\* original_schema stays set; an unset one becomes set only in a __call__ that
\* runs h; a __call__ that runs h and whose wrapped handler returns sets it.
C10_Step ==
  \A h \in Unpacked :
    h <= Len(handlers') =>
      /\ handlers[h].original_schema # None => handlers'[h].original_schema # None
      /\ (handlers[h].original_schema = None /\ handlers'[h].original_schema # None)
           => last'.op = "call" /\ h \in Chain(handlers, last'.h)
      /\ (/\ last'.op = "call"
          /\ last'.h \in Handlers
          /\ h \in Chain(handlers, last'.h)
          /\ HandlerCall(handlers, heap, handlers[h].inner, last'.node).ret # RefNotFound)
           => handlers'[h].original_schema # None

C11_ResolvedResultIsReturned ==
  (last.op = "wrapped" /\ last.calls = 1 /\ last.ret # RefNotFound)
    => \A h \in Handlers :
         LET r == ResolveRefSchema(handlers, heap, h, last.ret)
         IN  r.ret # RefNotFound /\ heap[r.ret] = last.argc

\* The heaps and dicts update_schema may be called with: a dict that exists,
\* or a dict built for the call.
UpdateArgs ==
  {[hp |-> heap, v |-> o] : o \in Objs}
    \cup {[hp |-> Append(heap, c), v |-> Len(heap) + 1] : c \in FreshContents}

\* C12: when original_schema is set and either has no "$ref" or the schema
\* given is the very dict resolve_ref_schema(original_schema) gives,
\* update_schema returns original_schema and changes no dict, for every
\* schema given.
C12_NoWriteWithoutNewSchema ==
  \A h \in Unpacked, a \in UpdateArgs :
    LET original == handlers[h].original_schema
        rr == ResolveRefSchema(handlers, a.hp, h, original)
    IN  (/\ original # None
         /\ \/ ~HasRef(heap[original])
            \/ rr.ret # RefNotFound /\ a.v = rr.ret)
          => UpdateSchema(handlers, a.hp, h, a.v)
               = [hp |-> a.hp, ret |-> original, lookups |-> rr.lookups,
                  wrote |-> FALSE]

\* wrapped() has just returned the "$ref"-free original_schema of its
\* handler, unwritten, though fn returned another dict with another content.
C12_Witness ==
  /\ last.op = "wrapped"
  /\ last.orig # None
  /\ ~HasRef(heap[last.orig])
  /\ last.arg # last.orig
  /\ last.argc # heap[last.orig]
  /\ last.ret = last.orig
  /\ ~last.wrote

\* The update the identity test is compared with: the definition named by
\* original_schema's "$ref" is always overwritten with the content of the schema
\* given; without a "$ref" there is no definition to overwrite.
UpdateAlwaysWrite(hs, hp, h, schema) ==
  LET original == hs[h].original_schema
  IN  IF original = None THEN [hp |-> hp, ret |-> schema]
      ELSE IF ~HasRef(hp[original]) THEN [hp |-> hp, ret |-> original]
      ELSE IF GetSchemaFromDefinitions(hp[original]["$ref"]) = None
        THEN [hp |-> hp, ret |-> RefNotFound]
        ELSE [hp |-> [hp EXCEPT ![GetSchemaFromDefinitions(hp[original]["$ref"])]
                                   = hp[schema]],
              ret |-> original]

\* C13: update_schema with its identity test and the update that always
\* overwrites the definition give, from every reachable state, for every
\* handler and every schema, the same returned dict and the same contents of
\* all dicts; so two runs of the same calls stay equal step by step.
C13_IdentityUpdateEqualsAlwaysWrite ==
  \A h \in Unpacked, a \in UpdateArgs :
    LET u == UpdateSchema(handlers, a.hp, h, a.v)
        w == UpdateAlwaysWrite(handlers, a.hp, h, a.v)
    IN  u.ret = w.ret /\ u.hp = w.hp

\* C14: when, in a call of wrapped(), the wrapped handler returned a "$ref"
\* to a name without a definition, wrapped() never returns a dict, whatever fn
\* does after the LookupError of its handler.
C14_AnyMissingRefAbortsWrapped ==
  (last.op \in {"wrapped", "raised"} /\ last.failed) => last.ret = RefNotFound

\* C14 (amended): when the latest result of the wrapped handler is a "$ref"
\* to a name without a definition, the __call__ of the
\* UnpackedRefJsonSchemaHandler raises LookupError, and wrapped() ends with
\* LookupError and writes nothing, whether fn let the error pass or caught it
\* and returned a dict.
C14_MissingRefAbortsWrapped ==
  /\ (/\ last.op = "call"
      /\ last.h \in Unpacked
      /\ handlers[last.h].original_schema # None
      /\ HasRef(heap[handlers[last.h].original_schema])
      /\ defs[heap[handlers[last.h].original_schema]["$ref"]] = None)
       => last.ret = RefNotFound
  /\ (/\ last.op \in {"wrapped", "raised"}
      /\ last.orig # None
      /\ HasRef(heap[last.orig])
      /\ defs[heap[last.orig]["$ref"]] = None)
       => last.ret = RefNotFound /\ ~last.wrote

\* fn called its handler once, the call raised, fn returned a dict of its
\* own all the same, and wrapped() has ended with LookupError.
C14_Witness ==
  /\ last.op = "wrapped"
  /\ last.calls = 1
  /\ last.orig # None
  /\ HasRef(heap[last.orig])
  /\ defs[heap[last.orig]["$ref"]] = None
  /\ last.argc = IntMin0
  /\ last.ret = RefNotFound

\* C15: every call of wrapped() has its own UnpackedRefJsonSchemaHandler,
\* the newest handler, which fn gets with original_schema unset and never
\* called, whatever earlier handlers have stored; wrapped() ends by returning
\* what update_schema of that handler returns for the dict fn returned (the
\* dict itself while original_schema is unset, else original_schema or
\* LookupError), and the handler is gone with the call.
C15_FreshHandlerPerCall ==
  /\ stack # <<>> =>
       LET f == stack[Len(stack)]
       IN  /\ f.dec = Len(handlers)
           /\ handlers[f.dec].kind = "unpacked"
           /\ Targets = {f.dec}
           /\ f.calls = 0 =>
                handlers[f.dec].original_schema = None /\ f.dec \notin called
  /\ last.op = "enter" =>
       stack # <<>> /\ stack[Len(stack)].dec = last.h /\ stack[Len(stack)].calls = 0
  /\ last.op = "wrapped" =>
       /\ stack = <<>>
       /\ last.h = Len(handlers) + 1
       /\ last.h \notin called
       /\ last.orig = None => last.ret = last.arg
       /\ last.orig # None => last.ret \in {last.orig, RefNotFound}
       /\ last.calls = 0 => last.orig = None

\* wrapped() has just built its handler over an UnpackedRefJsonSchemaHandler
\* that was called before and has its original_schema set.
C15_Witness ==
  /\ last.op = "enter"
  /\ last.h \in Unpacked
  /\ handlers[last.h].original_schema = None
  /\ handlers[last.h].inner \in called
  /\ handlers[handlers[last.h].inner].original_schema # None
  /\ held # {}

\* One step of the calls of the handlers: the names that have a definition
\* stay the same; __call__ and resolve_ref_schema change no dict that exists;
\* update_schema (called directly or by wrapped()) changes at most the
\* definition named by the "$ref" of the handler's original_schema.
C16_Step ==
  /\ \A n \in RefNames : defs[n] # None => defs'[n] = defs[n]
  /\ last'.op = "resolve" => heap' = heap
  /\ last'.op = "call" => \A o \in Objs : heap'[o] = heap[o]
  /\ last'.op \in {"update", "wrapped"} =>
       \A o \in Objs :
         heap'[o] # heap[o] =>
           /\ last'.wrote
           /\ last'.orig # None
           /\ HasRef(heap[last'.orig])
           /\ o = defs[heap[last'.orig]["$ref"]]

\* C16: over every sequence of __call__, resolve_ref_schema and update_schema
\* on the handlers of one engine no definition is removed, update_schema
\* changes at most the definition named by its original_schema's "$ref", and
\* resolve_ref_schema writes nothing.
C16_OnlyNamedDefinitionWritten == [][C16_Step]_vars

\* update_schema has just written definition B while definition A, and a
\* "$ref" to A from an earlier call, exist unchanged.
C16_Witness ==
  /\ last.op \in {"update", "wrapped"}
  /\ last.wrote
  /\ heap[last.orig] = RefSchema("B")
  /\ heap[defs["B"]] = last.argc
  /\ defs["A"] # None
  /\ heap[defs["A"]] = IntSchema

\* One step: a __call__ of an UnpackedRefJsonSchemaHandler whose wrapped
\* handler returns stores that result as original_schema, replacing an earlier
\* one; update_schema (called directly or by wrapped()) works on the
\* original_schema stored last: it returns it (or raises) and changes at most
\* the dict it resolves to.
C18_Step ==
  /\ (last'.op = "call" /\ last'.h \in Unpacked) =>
       LET r == HandlerCall(handlers, heap, handlers[last'.h].inner, last'.node)
       IN  r.ret # RefNotFound => handlers'[last'.h].original_schema = r.ret
  /\ (last'.op \in {"update", "wrapped"} /\ last'.h \in Unpacked) =>
       LET original == handlers[last'.h].original_schema
       IN  /\ last'.orig = original
           /\ original # None =>
                /\ last'.ret \in {original, RefNotFound}
                /\ \A o \in Objs :
                     heap'[o] # heap[o] =>
                       o = ResolveRefSchema(handlers, heap, last'.h, original).ret

\* C18: when fn calls its handler more than once, update_schema reconciles
\* with the result of the latest call only: it returns the original_schema
\* stored last and writes at most the definition that one names; definitions
\* named by the results of earlier calls stay as they are.
C18_UpdateUsesLatestCall == [][C18_Step]_vars

\* fn called its handler twice, first getting a "$ref" to definition A and
\* then a "$ref"-free dict, and returned a new dict: wrapped() has returned
\* the second result and definition A is as before.
C18_Witness ==
  /\ last.op = "wrapped"
  /\ last.calls = 2
  /\ Allocated = 2
  /\ ~last.failed
  /\ ~last.edited
  /\ last.orig # None
  /\ ~HasRef(heap[last.orig])
  /\ last.ret = last.orig
  /\ last.argc = IntMin0
  /\ MarkersOf("A") # {}
  /\ defs["A"] # None
  /\ heap[defs["A"]] = IntSchema

\* The GenerateJsonSchemaHandlers whose override is a wrapped() function.
OverWrapped == {h \in Generate : handlers[h].inner # 0}

\* The content the GenerateJsonSchemaHandler g (one without a wrapped()
\* override) makes for a core schema.
Generated(g, node) == IF handlers[g].override THEN Override(node) ELSE GenerateInner(node)

\* One step with two stacked wrapped() functions, the outer one given a
\* handler whose override runs the inner one over a handler without override:
\* the outer fn's call of its handler, for a core schema that gives a "$ref" to
\* a definition, returns that definition with the content the inner fn
\* returned; and when the outer fn (one call, no edit) returns a dict other
\* than that definition, wrapped() returns the "$ref" dict and the definition
\* has the content the outer fn returned.
C17_Step ==
  /\ (/\ last'.op = "call"
      /\ last'.h \in Unpacked
      /\ handlers[last'.h].inner \in OverWrapped
      /\ handlers[handlers[handlers[last'.h].inner].inner].kind = "generate"
      /\ handlers[handlers[handlers[last'.h].inner].inner].inner = 0
      /\ HasRef(Generated(handlers[handlers[last'.h].inner].inner, last'.node))
      /\ defs[Generated(handlers[handlers[last'.h].inner].inner, last'.node)["$ref"]]
           # None)
       => /\ last'.ret
             = defs[Generated(handlers[handlers[last'.h].inner].inner, last'.node)["$ref"]]
          /\ heap'[last'.ret] = InnerFnContent
          /\ heap'[handlers'[last'.h].original_schema]
             = Generated(handlers[handlers[last'.h].inner].inner, last'.node)
  /\ (/\ last'.op = "wrapped"
      /\ last'.over \in OverWrapped
      /\ handlers[handlers[last'.over].inner].kind = "generate"
      /\ handlers[handlers[last'.over].inner].inner = 0
      /\ last'.calls = 1
      /\ ~last'.edited
      /\ last'.orig # None
      /\ HasRef(heap[last'.orig])
      /\ defs[heap[last'.orig]["$ref"]] # None
      /\ last'.arg # defs[heap[last'.orig]["$ref"]])
       => /\ last'.ret = last'.orig
          /\ heap'[last'.ret] = heap[last'.orig]
          /\ heap[defs[heap[last'.orig]["$ref"]]] = InnerFnContent
          /\ heap'[defs[heap[last'.orig]["$ref"]]] = last'.argc

\* C17: with two stacked wrapped() functions over a handler that returns a
\* "$ref" to a definition, each fn returning a new dict: the inner write is
\* made before the outer fn gets its dict, the outer fn gets the content the
\* inner fn returned, the result is the "$ref" dict, and the definition ends
\* with the content the outer fn returned.
C17_StackedWritesInOrder == [][C17_Step]_vars

\* The outer wrapped(), over the handler that runs the inner one, has just
\* returned the "$ref" to B, and definition B has the outer fn's content.
C17_Witness ==
  /\ last.op = "wrapped"
  /\ last.over \in OverWrapped
  /\ last.calls = 1
  /\ ~last.edited
  /\ last.wrote
  /\ last.ret # RefNotFound
  /\ heap[last.ret] = RefSchema("B")
  /\ last.argc = IntMin0
  /\ heap[defs["B"]] = IntMin0

=============================================================================
